---- MODULE Spec2Model ----
(***************************************************************************)
(* Pixshop (App.tsx, utils/storage, services/geminiService): the linear    *)
(* edit history with its cursor, the persisted session record, the remote  *)
(* operations that append to the history, and the transient tool state     *)
(* that an append invalidates; the pixels painted on the mask canvas; and  *)
(* the item list and the run of the batch screen (BatchProcessor.tsx).     *)
(*                                                                         *)
(* One action is one event handler, promise continuation or IndexedDB      *)
(* request completion, together with the React commit that follows it      *)
(* (state updates made in one handler or continuation are applied in one   *)
(* commit, and the effects of that commit run before the next event).      *)
(* A handler that awaits is split at the await: the part before it is one  *)
(* action, the continuation another, and the continuation works on the     *)
(* values its closure captured when the handler was created.               *)
(***************************************************************************)
EXTENDS Integers, Sequences, FiniteSets, TLC

\* -------------------------------------------------------------------------
\* Bounds
\* -------------------------------------------------------------------------
\* File objects created during one run (uploads, crops, remote results).
MaxSnap == 2
\* IndexedDB requests issued and not yet completed.
MaxPending == 2
\* Remote operations outstanding at once.
MaxOps == 2
\* Fingers on the mask canvas at once.
MaxTouches == 2
\* Longest history an earlier run of the program left in the object store;
\* its snapshots are 1..OldSnaps, the File objects this run creates are
\* OldSnaps+1, OldSnaps+2, ...
OldSnaps == 2
\* Pixels in the row of the mask canvas whose values are followed.
Width == 3
\* Items in the list of the batch screen.
MaxItems == 3

VARIABLES
    history,            \* useState<File[]>:  sequence of snapshot ids
    historyIndex,       \* useState<number>:  the cursor
    nextFile,           \* identity of the next File object to be created
    record,             \* the 'current_session' record of the object store
    pending,            \* IndexedDB requests in the order they were issued
    ops,                \* outstanding remote operations with their closures
    isLoading,          \* the busy flag
    activeTool,         \* ToolMode
    showLiveAssistant,  \* voice assistant requested
    assistant,          \* closure held by the mounted LiveAssistant session
    editHotspot, displayHotspot,
    completedCrop,
    isMasking, maskDataUrl,
    isDrawing, raster,  \* isDrawingRef, pixels of the mask canvas
    touches,            \* fingers on the mask canvas (its active touch list)
    videoResult, analysisResult, groundingChunks,
    toast,              \* notification added by the last step ("none" if none)
    lastSave,           \* outcome of the save request completed last
    lastOp,             \* name of the last step taken
    alpha,              \* alpha channel of one row of the mask canvas
    lastPosition,       \* lastPositionRef (0 for null)
    items,              \* BatchProcessor: useState<BatchItem[]>
    operation,          \* BatchProcessor: the operation selected
    prompt,             \* BatchProcessor: the description typed
    isProcessing,       \* BatchProcessor: a run is in progress
    run                 \* the startBatch call in progress: its items, its i

storeVars == <<history, historyIndex, nextFile>>
dbVars    == <<record, pending, lastSave>>
toolVars  == <<editHotspot, displayHotspot, completedCrop, isMasking,
               maskDataUrl, videoResult, analysisResult, groundingChunks>>
maskVars  == <<isDrawing, raster, touches>>
paintVars == <<alpha, lastPosition>>
batchVars == <<items, operation, prompt, isProcessing, run>>
\* The state of App, without the notification and the name of the step.
editorVars == <<storeVars, dbVars, ops, isLoading, activeTool,
                showLiveAssistant, assistant, toolVars, maskVars, paintVars>>
vars == <<history, historyIndex, nextFile, record, pending, ops, isLoading,
          activeTool, showLiveAssistant, assistant, editHotspot,
          displayHotspot, completedCrop, isMasking, maskDataUrl, isDrawing,
          raster, touches, videoResult, analysisResult, groundingChunks, toast, lastSave,
          lastOp, alpha, lastPosition, items, operation, prompt, isProcessing,
          run>>

\* -------------------------------------------------------------------------
\* Values
\* -------------------------------------------------------------------------
ToolMode == {"retouch", "magic", "adjust", "filters", "crop", "generate",
             "video", "analyze"}

\* The tools the specification of the history store switches between: one
\* that selects a point first, one that dispatches at once, and crop.
StoreTools == {"retouch", "filters", "crop"}

\* The tools the specification of the tool state switches between: the ones
\* that own a hotspot, a mask, a crop selection and an analysis result.
PanelTools == {"retouch", "magic", "crop", "analyze"}

\* Tools whose panel button runs handleGenAction.
GenTools == {"retouch", "magic", "adjust", "filters", "generate", "video"}


NoSession == [present |-> FALSE, history |-> <<>>, currentIndex |-> -1]

SessionState(h, i) == [present |-> TRUE, history |-> h, currentIndex |-> i]

\* Records an earlier run can have left behind: none, or the mirror of a
\* non-empty history with a cursor inside it.
EarlierSessions ==
    {NoSession} \cup
    {SessionState([k \in 1..n |-> k], i) : <<n, i>> \in
        {p \in (1..OldSnaps) \X (0..(OldSnaps - 1)) : p[2] < p[1]}}

Request(t, h, i) == [type |-> t, history |-> h, currentIndex |-> i]

NoClosure == [mounted |-> FALSE, history |-> <<>>, historyIndex |-> -1]

Closure(h, i) == [mounted |-> TRUE, history |-> h, historyIndex |-> i]

\* history[historyIndex] ?? null, with 0 standing for null.
currentImageOf(h, i) == IF i >= 0 /\ i < Len(h) THEN h[i + 1] ELSE 0

currentImage == currentImageOf(history, historyIndex)

originalImage == IF Len(history) > 0 THEN history[1] ELSE 0

\* The editor is rendered; otherwise the start screen is.
EditorShown(h, i, tool) == currentImageOf(h, i) # 0 \/ tool = "generate"

\* -------------------------------------------------------------------------
\* Pure parts of the handlers
\* -------------------------------------------------------------------------
\* Array.prototype.slice(0, n) on a sequence.
slice(h, n) == SubSeq(h, 1, IF n < 0 THEN 0 ELSE IF n > Len(h) THEN Len(h) ELSE n)

\* addToHistory: the (history, historyIndex) it sets, computed from the
\* history and historyIndex of its closure.
addToHistory(h, i, file) ==
    LET newHist == Append(slice(h, i + 1), file)
    IN  [history |-> newHist, historyIndex |-> Len(newHist) - 1]

\* handleUndo without its guard, and handleRedo with the guard off by one.
handleUndo_NoGuard(h, i) == i - 1

handleRedo_OffByOne(h, i) == IF i < Len(h) THEN i + 1 ELSE i

\* handleUndo / handleRedo: the cursor they leave.
handleUndo(h, i) == IF i > 0 THEN i - 1 ELSE i

handleRedo(h, i) == IF i < Len(h) - 1 THEN i + 1 ELSE i

\* A save effect that skips the save while the cursor is on the original.
saveSession_SkipFirst(q, h, i) ==
    IF Len(h) > 0 /\ i > 0 THEN Append(q, Request("save", h, i)) ELSE q

\* The Save Session effect, run after a commit that changed history or
\* historyIndex: the request queue it leaves.
saveSession(q, h, i) ==
    IF Len(h) > 0 THEN Append(q, Request("save", h, i)) ELSE q

\* A rehydration that puts the cursor on the last snapshot.
loadSession_CursorAtTip(session) ==
    [history |-> session.history, historyIndex |-> Len(session.history) - 1]

\* What the callback of the Load Session effect passes to setHistory and
\* setHistoryIndex for the session that loadSession() resolved with.
loadSession(session) ==
    [history |-> session.history, historyIndex |-> session.currentIndex]

\* dataURLtoFile succeeds on "data:<mime>;base64,<data>" (what
\* handleApiResponse returns) and throws on a string without a comma (the
\* "<uri>&key=<key>" that generateVeoVideo returns).
dataURLtoFile(tool) == tool # "video"

\* The closure of the LiveAssistant session after a commit: the session
\* effect runs once per mount and keeps the callbacks of that render.
LiveSession(show, h, i, tool) ==
    IF show /\ EditorShown(h, i, tool)
    THEN IF assistant.mounted THEN assistant ELSE Closure(h, i)
    ELSE NoClosure

\* The mask canvas after a commit: the resize effect assigns canvas.width
\* whenever the displayed image or the tool changed, which blanks a canvas.
maskCanvas(h, i, tool) ==
    IF currentImageOf(h, i) # currentImage \/ tool # activeTool
    THEN "blank" ELSE raster

\* The canvas element is in the DOM.
CanvasShown == currentImage # 0 /\ activeTool # "crop"

Remove(s, k) == SubSeq(s, 1, k - 1) \o SubSeq(s, k + 1, Len(s))

\* The pixels of the row that is followed, and lastPositionRef before the
\* first pointer-down.
Pixels == 1..Width

NoPosition == 0

\* No startBatch call is in progress.
NoRun == [active |-> FALSE, items |-> <<>>, i |-> 0]

\* -------------------------------------------------------------------------
\* Initial state: App has mounted, the Load Session effect has issued
\* loadSession(), nothing else has happened.
\* -------------------------------------------------------------------------
Init ==
    /\ history = <<>>
    /\ historyIndex = -1
    /\ nextFile = OldSnaps + 1
    /\ record \in EarlierSessions
    /\ pending = <<Request("load", <<>>, -1)>>
    /\ ops = <<>>
    /\ isLoading = FALSE
    /\ activeTool = "retouch"
    /\ showLiveAssistant = FALSE
    /\ assistant = NoClosure
    /\ editHotspot = FALSE
    /\ displayHotspot = FALSE
    /\ completedCrop = FALSE
    /\ isMasking = FALSE
    /\ maskDataUrl = "null"
    /\ isDrawing = FALSE
    /\ touches = 0
    /\ raster = "blank"
    /\ videoResult = FALSE
    /\ analysisResult = FALSE
    /\ groundingChunks = FALSE
    /\ toast = "none"
    /\ lastSave = "none"
    /\ lastOp = "init"
    /\ alpha = [p \in Pixels |-> 0]
    /\ lastPosition = NoPosition
    /\ items = <<>>
    /\ operation = "filter"
    /\ prompt = ""
    /\ isProcessing = FALSE
    /\ run = NoRun

\* -------------------------------------------------------------------------
\* Commits
\* -------------------------------------------------------------------------
\* A commit that sets history and historyIndex and leaves the tool state:
\* the save effect, the assistant and the canvas follow.
SetStore(h, i) ==
    /\ history' = h
    /\ historyIndex' = i
    /\ pending' = saveSession(pending, h, i)
    /\ assistant' = LiveSession(showLiveAssistant, h, i, activeTool)
    /\ raster' = maskCanvas(h, i, activeTool)

\* addToHistory(file) called from a closure holding (h, i).
AddToHistory(h, i) ==
    LET r == addToHistory(h, i, nextFile)
    IN  /\ nextFile <= OldSnaps + MaxSnap
        /\ Len(pending) < MaxPending
        /\ nextFile' = nextFile + 1
        /\ history' = r.history
        /\ historyIndex' = r.historyIndex
        /\ editHotspot' = FALSE
        /\ displayHotspot' = FALSE
        /\ completedCrop' = FALSE
        /\ isMasking' = FALSE
        /\ maskDataUrl' = "null"
        /\ videoResult' = FALSE
        /\ analysisResult' = FALSE
        /\ UNCHANGED groundingChunks
        /\ toast' = "Layer added"
        /\ pending' = saveSession(pending, r.history, r.historyIndex)
        /\ assistant' =
             LiveSession(showLiveAssistant, r.history, r.historyIndex, activeTool)
        /\ raster' = maskCanvas(r.history, r.historyIndex, activeTool)

\* -------------------------------------------------------------------------
\* History store
\* -------------------------------------------------------------------------
\* StartScreen onFileSelect.
Upload ==
    /\ ~EditorShown(history, historyIndex, activeTool)
    /\ AddToHistory(history, historyIndex)
    /\ lastOp' = "upload"
    /\ UNCHANGED <<record, lastSave, ops, isLoading, activeTool, showLiveAssistant,
                   isDrawing, touches>>
    /\ UNCHANGED <<paintVars, batchVars>>

\* ReactCrop onComplete.
CropComplete ==
    /\ activeTool = "crop"
    /\ currentImage # 0
    /\ ~completedCrop
    /\ completedCrop' = TRUE
    /\ lastOp' = "cropComplete"
    /\ toast' = "none"
    /\ UNCHANGED <<storeVars, dbVars, ops, isLoading, activeTool,
                   showLiveAssistant, assistant, editHotspot, displayHotspot,
                   isMasking, maskDataUrl, maskVars, videoResult,
                   analysisResult, groundingChunks>>
    /\ UNCHANGED <<paintVars, batchVars>>

\* The Apply button of CropPanel.
CropPanelEnabled == ~isLoading /\ completedCrop

handleCropApply ==
    /\ activeTool = "crop"
    /\ currentImage # 0
    /\ CropPanelEnabled
    /\ AddToHistory(history, historyIndex)
    /\ lastOp' = "crop"
    /\ UNCHANGED <<record, lastSave, ops, isLoading, activeTool, showLiveAssistant,
                   isDrawing, touches>>
    /\ UNCHANGED <<paintVars, batchVars>>

\* An undo that also leaves masking and drops the exported mask.
Undo_DropsMask ==
    /\ handleUndo(history, historyIndex) = historyIndex
         \/ Len(pending) < MaxPending
    /\ LET i == handleUndo(history, historyIndex)
       IN  IF i # historyIndex
           THEN SetStore(history, i)
           ELSE UNCHANGED <<history, historyIndex, pending, assistant, raster>>
    /\ isMasking' = FALSE
    /\ maskDataUrl' = "null"
    /\ lastOp' = "undo"
    /\ toast' = "none"
    /\ UNCHANGED <<nextFile, record, lastSave, ops, isLoading, activeTool,
                   showLiveAssistant, editHotspot, displayHotspot,
                   completedCrop, videoResult, analysisResult, groundingChunks,
                   isDrawing, touches>>
    /\ UNCHANGED <<paintVars, batchVars>>

\* Undo button or Ctrl/Cmd+Z.
Undo ==
    /\ handleUndo(history, historyIndex) = historyIndex
         \/ Len(pending) < MaxPending
    /\ LET i == handleUndo(history, historyIndex)
       IN  IF i # historyIndex
           THEN SetStore(history, i)
           ELSE UNCHANGED <<history, historyIndex, pending, assistant, raster>>
    /\ lastOp' = "undo"
    /\ toast' = "none"
    /\ UNCHANGED <<nextFile, record, lastSave, ops, isLoading, activeTool,
                   showLiveAssistant, toolVars, isDrawing, touches>>
    /\ UNCHANGED <<paintVars, batchVars>>

\* Redo button, Ctrl/Cmd+Shift+Z or Ctrl/Cmd+Y.
Redo ==
    /\ handleRedo(history, historyIndex) = historyIndex
         \/ Len(pending) < MaxPending
    /\ LET i == handleRedo(history, historyIndex)
       IN  IF i # historyIndex
           THEN SetStore(history, i)
           ELSE UNCHANGED <<history, historyIndex, pending, assistant, raster>>
    /\ lastOp' = "redo"
    /\ toast' = "none"
    /\ UNCHANGED <<nextFile, record, lastSave, ops, isLoading, activeTool,
                   showLiveAssistant, toolVars, isDrawing, touches>>
    /\ UNCHANGED <<paintVars, batchVars>>

\* handleClear up to its await: clearSession() is issued.
handleClear ==
    /\ EditorShown(history, historyIndex, activeTool)
    /\ Len(pending) < MaxPending
    /\ pending' = Append(pending, Request("clear", <<>>, -1))
    /\ lastOp' = "reset"
    /\ toast' = "none"
    /\ UNCHANGED <<storeVars, record, lastSave, ops, isLoading, activeTool,
                   showLiveAssistant, assistant, toolVars, maskVars>>
    /\ UNCHANGED <<paintVars, batchVars>>

\* -------------------------------------------------------------------------
\* Session persistence: the object store serves the requests in the order
\* they were issued; each one succeeds or fails.
\* -------------------------------------------------------------------------
\* store.put(session) succeeded.
SaveDone ==
    /\ pending # <<>>
    /\ Head(pending).type = "save"
    /\ record' = SessionState(Head(pending).history, Head(pending).currentIndex)
    /\ pending' = Tail(pending)
    /\ lastSave' = "ok"
    /\ lastOp' = "saved"
    /\ toast' = "none"
    /\ UNCHANGED <<storeVars, ops, isLoading, activeTool, showLiveAssistant,
                   assistant, toolVars, maskVars>>
    /\ UNCHANGED <<paintVars, batchVars>>

\* store.delete succeeded: handleClear resumes after its await.
ClearDone ==
    /\ pending # <<>>
    /\ Head(pending).type = "clear"
    /\ record' = NoSession
    /\ history' = <<>>
    /\ historyIndex' = -1
    /\ pending' = saveSession(Tail(pending), <<>>, -1)
    /\ assistant' = LiveSession(showLiveAssistant, <<>>, -1, activeTool)
    /\ raster' = maskCanvas(<<>>, -1, activeTool)
    /\ lastOp' = "cleared"
    /\ toast' = "none"
    /\ UNCHANGED <<nextFile, lastSave, ops, isLoading, activeTool, showLiveAssistant,
                   toolVars, isDrawing, touches>>
    /\ UNCHANGED <<paintVars, batchVars>>

\* store.get succeeded: the callback of the Load Session effect runs.
LoadDone ==
    /\ pending # <<>>
    /\ Head(pending).type = "load"
    /\ IF record.present /\ Len(record.history) > 0
       THEN LET s == loadSession(record)
            IN  /\ history' = s.history
                /\ historyIndex' = s.historyIndex
                /\ pending' = saveSession(Tail(pending), s.history,
                                          s.historyIndex)
                /\ assistant' = LiveSession(showLiveAssistant, s.history,
                                            s.historyIndex, activeTool)
                /\ raster' = maskCanvas(s.history, s.historyIndex, activeTool)
                /\ toast' = "Session restored"
       ELSE /\ pending' = Tail(pending)
            /\ toast' = "none"
            /\ UNCHANGED <<history, historyIndex, assistant, raster>>
    /\ lastOp' = "loaded"
    /\ UNCHANGED <<nextFile, record, lastSave, ops, isLoading, activeTool,
                   showLiveAssistant, toolVars, isDrawing, touches>>
    /\ UNCHANGED <<paintVars, batchVars>>

\* The request at the head of the queue fails: a save or a load is logged
\* (console.error / console.warn); a failed clearSession() rejects the await
\* of handleClear, whose remaining statements are not run.
PersistFail ==
    /\ pending # <<>>
    /\ pending' = Tail(pending)
    /\ lastSave' = IF Head(pending).type = "save" THEN "failed" ELSE lastSave
    /\ lastOp' = Head(pending).type \o "Failed"
    /\ toast' = "none"
    /\ UNCHANGED <<storeVars, record, ops, isLoading, activeTool,
                   showLiveAssistant, assistant, toolVars, maskVars>>
    /\ UNCHANGED <<paintVars, batchVars>>

\* -------------------------------------------------------------------------
\* Remote operations
\* -------------------------------------------------------------------------
RemoteOp(k, tool, h, i) ==
    [kind |-> k, tool |-> tool, history |-> h, historyIndex |-> i]

\* What the button of the active panel requires besides ~isLoading.
PanelReady(tool) ==
    CASE tool = "retouch" -> editHotspot
      [] OTHER -> TRUE

\* handleGenAction up to its await, called from a closure holding (h, i).
handleGenAction(tool, h, i) ==
    IF currentImageOf(h, i) = 0
    THEN UNCHANGED <<ops, isLoading>>
    ELSE /\ isLoading' = TRUE
         /\ ops' = Append(ops, RemoteOp("gen", tool, h, i))

\* A generation button of the active tool panel.
PanelAction ==
    /\ EditorShown(history, historyIndex, activeTool)
    /\ activeTool \in GenTools
    /\ ~isLoading
    /\ PanelReady(activeTool)
    /\ Len(ops) < MaxOps
    /\ handleGenAction(activeTool, history, historyIndex)
    /\ lastOp' = "dispatch"
    /\ toast' = "none"
    /\ UNCHANGED <<storeVars, dbVars, activeTool, showLiveAssistant, assistant,
                   toolVars, maskVars>>
    /\ UNCHANGED <<paintVars, batchVars>>

\* The remote call of operation k resolved: addToHistory(dataURLtoFile(url)),
\* or handleError when dataURLtoFile throws; then setIsLoading(false).
GenResolve(k) ==
    /\ ops[k].kind = "gen"
    /\ ops' = Remove(ops, k)
    /\ isLoading' = FALSE
    /\ IF dataURLtoFile(ops[k].tool)
       THEN /\ AddToHistory(ops[k].history, ops[k].historyIndex)
            /\ lastOp' = "genDone"
       ELSE /\ toast' = "Invalid data URL"
            /\ lastOp' = "genFailed"
            /\ UNCHANGED <<storeVars, pending, assistant, toolVars, raster>>
    /\ UNCHANGED <<record, lastSave, activeTool, showLiveAssistant, isDrawing,
                   touches>>
    /\ UNCHANGED <<paintVars, batchVars>>

\* A catch block that also drops the mask.
GenReject_DropsMask(k) ==
    /\ ops[k].kind = "gen"
    /\ ops' = Remove(ops, k)
    /\ isLoading' = FALSE
    /\ toast' = "error"
    /\ lastOp' = "genFailed"
    /\ isMasking' = FALSE
    /\ maskDataUrl' = "null"
    /\ UNCHANGED <<storeVars, dbVars, activeTool, showLiveAssistant, assistant,
                   editHotspot, displayHotspot, completedCrop, videoResult,
                   analysisResult, groundingChunks, maskVars>>
    /\ UNCHANGED <<paintVars, batchVars>>

\* The remote call of operation k was rejected or blocked, or returned no
\* image: handleError, then setIsLoading(false).
GenReject(k) ==
    /\ ops[k].kind = "gen"
    /\ ops' = Remove(ops, k)
    /\ isLoading' = FALSE
    /\ toast' = "error"
    /\ lastOp' = "genFailed"
    /\ UNCHANGED <<storeVars, dbVars, activeTool, showLiveAssistant, assistant,
                   toolVars, maskVars>>
    /\ UNCHANGED <<paintVars, batchVars>>

\* Operation k is a generateVeoVideo call.
VideoOp(k) == ops[k].kind = "gen" /\ ops[k].tool = "video"

\* The poll loop of generateVeoVideo: getVideosOperation returned an
\* operation that is not done, and the loop sleeps and asks again.  Nothing
\* counts the rounds.  (An operation that is done with a uri is GenResolve;
\* a failed request, or an operation done without a uri, is GenReject.)
VideoPoll(k) ==
    /\ VideoOp(k)
    /\ lastOp' = "poll"
    /\ toast' = "none"
    /\ UNCHANGED <<editorVars, batchVars>>

\* handleAnalysis up to its await (the button of AnalyzePanel).
handleAnalysis ==
    /\ EditorShown(history, historyIndex, activeTool)
    /\ activeTool = "analyze"
    /\ ~isLoading
    /\ currentImage # 0
    /\ Len(ops) < MaxOps
    /\ isLoading' = TRUE
    /\ ops' = Append(ops, RemoteOp("analysis", "analyze", history, historyIndex))
    /\ lastOp' = "analyze"
    /\ toast' = "none"
    /\ UNCHANGED <<storeVars, dbVars, activeTool, showLiveAssistant, assistant,
                   toolVars, maskVars>>
    /\ UNCHANGED <<paintVars, batchVars>>

\* analyzeImage resolved, with or without grounding chunks.
AnalysisResolve(k) ==
    /\ ops[k].kind = "analysis"
    /\ ops' = Remove(ops, k)
    /\ isLoading' = FALSE
    /\ analysisResult' = TRUE
    /\ groundingChunks' \in BOOLEAN
    /\ lastOp' = "analysisDone"
    /\ toast' = "none"
    /\ UNCHANGED <<storeVars, dbVars, activeTool, showLiveAssistant, assistant,
                   editHotspot, displayHotspot, completedCrop, isMasking,
                   maskDataUrl, videoResult, maskVars>>
    /\ UNCHANGED <<paintVars, batchVars>>

\* analyzeImage rejected.
AnalysisReject(k) ==
    /\ ops[k].kind = "analysis"
    /\ ops' = Remove(ops, k)
    /\ isLoading' = FALSE
    /\ lastOp' = "analysisFailed"
    /\ toast' = "error"
    /\ UNCHANGED <<storeVars, dbVars, activeTool, showLiveAssistant, assistant,
                   toolVars, maskVars>>
    /\ UNCHANGED <<paintVars, batchVars>>

\* The video mode of AnalyzePanel: analyzeVideo(f, p).then(setAnalysisResult).
\* The busy flag is not touched and a rejection is not handled.
AnalyzeVideo ==
    /\ EditorShown(history, historyIndex, activeTool)
    /\ activeTool = "analyze"
    /\ ~isLoading
    /\ Len(ops) < MaxOps
    /\ ops' = Append(ops, RemoteOp("videoAnalysis", "analyze", history,
                                   historyIndex))
    /\ lastOp' = "analyzeVideo"
    /\ toast' = "none"
    /\ UNCHANGED <<storeVars, dbVars, isLoading, activeTool, showLiveAssistant,
                   assistant, toolVars, maskVars>>
    /\ UNCHANGED <<paintVars, batchVars>>

VideoAnalysisResolve(k) ==
    /\ ops[k].kind = "videoAnalysis"
    /\ ops' = Remove(ops, k)
    /\ analysisResult' = TRUE
    /\ lastOp' = "videoAnalysisDone"
    /\ toast' = "none"
    /\ UNCHANGED <<storeVars, dbVars, isLoading, activeTool, showLiveAssistant,
                   assistant, editHotspot, displayHotspot, completedCrop,
                   isMasking, maskDataUrl, videoResult, groundingChunks,
                   maskVars>>
    /\ UNCHANGED <<paintVars, batchVars>>

VideoAnalysisReject(k) ==
    /\ ops[k].kind = "videoAnalysis"
    /\ ops' = Remove(ops, k)
    /\ lastOp' = "videoAnalysisFailed"
    /\ toast' = "none"
    /\ UNCHANGED <<storeVars, dbVars, isLoading, activeTool, showLiveAssistant,
                   assistant, toolVars, maskVars>>
    /\ UNCHANGED <<paintVars, batchVars>>

\* -------------------------------------------------------------------------
\* Voice assistant
\* -------------------------------------------------------------------------
OpenAssistant ==
    /\ EditorShown(history, historyIndex, activeTool)
    /\ ~showLiveAssistant
    /\ showLiveAssistant' = TRUE
    /\ assistant' = LiveSession(TRUE, history, historyIndex, activeTool)
    /\ lastOp' = "openAssistant"
    /\ toast' = "none"
    /\ UNCHANGED <<storeVars, dbVars, ops, isLoading, activeTool, toolVars,
                   maskVars>>
    /\ UNCHANGED <<paintVars, batchVars>>

CloseAssistant ==
    /\ assistant.mounted
    /\ showLiveAssistant' = FALSE
    /\ assistant' = NoClosure
    /\ lastOp' = "closeAssistant"
    /\ toast' = "none"
    /\ UNCHANGED <<storeVars, dbVars, ops, isLoading, activeTool, toolVars,
                   maskVars>>
    /\ UNCHANGED <<paintVars, batchVars>>

\* onmessage with a tool call: onApplyFilter / onRemoveBackground of the
\* render in which the session was started.
ToolCall ==
    /\ assistant.mounted
    /\ Len(ops) < MaxOps
    /\ \E tool \in {"filters", "magic"} :
          handleGenAction(tool, assistant.history, assistant.historyIndex)
    /\ lastOp' = "toolCall"
    /\ toast' = "none"
    /\ UNCHANGED <<storeVars, dbVars, activeTool, showLiveAssistant, assistant,
                   toolVars, maskVars>>
    /\ UNCHANGED <<paintVars, batchVars>>

\* -------------------------------------------------------------------------
\* Tools
\* -------------------------------------------------------------------------
\* A button of the tool sidebar.
SetActiveTool(t) ==
    /\ EditorShown(history, historyIndex, activeTool)
    /\ t # activeTool
    /\ activeTool' = t
    /\ assistant' = LiveSession(showLiveAssistant, history, historyIndex, t)
    /\ raster' = maskCanvas(history, historyIndex, t)
    /\ lastOp' = "tool"
    /\ toast' = "none"
    /\ UNCHANGED <<storeVars, dbVars, ops, isLoading, showLiveAssistant,
                   toolVars, isDrawing, touches>>
    /\ UNCHANGED <<paintVars, batchVars>>

handleImageClick ==
    /\ CanvasShown
    /\ activeTool = "retouch"
    /\ ~isMasking
    /\ editHotspot' = TRUE
    /\ displayHotspot' = TRUE
    /\ lastOp' = "imageClick"
    /\ toast' = "none"
    /\ UNCHANGED <<storeVars, dbVars, ops, isLoading, activeTool,
                   showLiveAssistant, assistant, completedCrop, isMasking,
                   maskDataUrl, videoResult, analysisResult, groundingChunks,
                   maskVars>>
    /\ UNCHANGED <<paintVars, batchVars>>

\* MagicPanel onToggleMasking.
ToggleMasking ==
    /\ EditorShown(history, historyIndex, activeTool)
    /\ activeTool = "magic"
    /\ ~isLoading
    /\ isMasking' = ~isMasking
    /\ lastOp' = "toggleMasking"
    /\ toast' = "none"
    /\ UNCHANGED <<storeVars, dbVars, ops, isLoading, activeTool,
                   showLiveAssistant, assistant, editHotspot, displayHotspot,
                   completedCrop, maskDataUrl, videoResult, analysisResult,
                   groundingChunks, maskVars>>
    /\ UNCHANGED <<paintVars, batchVars>>

\* The events bound to the mask canvas.
MouseEvents == {"mousedown", "mousemove", "mouseup", "mouseleave"}

TouchEvents == {"touchstart", "touchmove", "touchend"}

MoveEvents == {"mousemove", "touchmove"}

EndEvents == {"mouseup", "mouseleave", "touchend"}

\* e.touches of a mouse event (undefined).
NoTouches == -1

\* The length of e.touches, the touches on the surface after the event: a
\* touchend has one entry less than the touchmove before it.
TouchList(type) ==
    CASE type = "touchstart" -> touches + 1
      [] type = "touchend" -> touches - 1
      [] type = "touchmove" -> touches
      [] OTHER -> NoTouches

\* handleMaskDraw for an event of the mask canvas, without the pixels it
\* draws and the position it records.  The canvas takes new
\* pointers only while isMasking (pointer-events-none otherwise); the
\* events of a finger that went down on it keep coming to it.  Without
\* isMasking the handler returns at once, and reading
\* e.touches[0].clientX of an empty list throws before anything is assigned.
StrokeEvent(type) ==
    /\ CanvasShown
    /\ CASE type = "touchstart" -> isMasking /\ touches < MaxTouches
         [] type \in {"touchmove", "touchend"} -> touches > 0
         [] OTHER -> isMasking
    /\ touches' = IF type \in TouchEvents THEN TouchList(type) ELSE touches
    /\ IF ~isMasking \/ TouchList(type) = 0
       THEN UNCHANGED <<isDrawing, raster, maskDataUrl>>
       ELSE CASE type \in {"mousedown", "touchstart"} ->
                   /\ isDrawing' = TRUE
                   /\ raster' = "painted"
                   /\ UNCHANGED maskDataUrl
              [] type \in MoveEvents ->
                   /\ raster' = IF isDrawing THEN "painted" ELSE raster
                   /\ UNCHANGED <<isDrawing, maskDataUrl>>
              [] OTHER ->
                   /\ isDrawing' = FALSE
                   /\ maskDataUrl' = raster
                   /\ UNCHANGED raster
    /\ lastOp' = type
    /\ toast' = "none"
    /\ UNCHANGED <<storeVars, dbVars, ops, isLoading, activeTool,
                   showLiveAssistant, assistant, editHotspot, displayHotspot,
                   completedCrop, isMasking, videoResult, analysisResult,
                   groundingChunks>>
    /\ UNCHANGED batchVars

\* handleMaskDraw for an event whose position is not followed.
handleMaskDraw(type) ==
    /\ StrokeEvent(type)
    /\ UNCHANGED paintVars

\* The alpha of the paint colour 'rgba(255,255,255,0.8)' in the 8-bit
\* channel of the canvas.
PaintAlpha == 204

\* The diameter of the brush, in pixels of the row.
brushSize == 2

\* The default compositing of a 2D context ('source-over', which the
\* handler never changes) on the alpha channel: src + dst * (1 - src).
sourceOver(src, dst) == src + ((dst * (255 - src) + 127) \div 255)

\* The pixels of the row inside arc(x, y, brushSize/2, 0, 2*PI).
Disc(x) ==
    {p \in Pixels : x - (brushSize \div 2) <= p /\ p <= x + (brushSize \div 2)}

\* The pixels of the row inside the line from a to b of width brushSize
\* with round caps.
Segment(a, b) ==
    {p \in Pixels :
        \E c \in Pixels : /\ (a <= c /\ c <= b) \/ (b <= c /\ c <= a)
                          /\ p \in Disc(c)}

\* ctx.fill() / ctx.stroke() of one path: the paint colour is composited
\* once onto every pixel the path covers.
paint(a, region) ==
    [p \in Pixels |->
        IF p \in region THEN sourceOver(PaintAlpha, a[p]) ELSE a[p]]

\* handleMaskDraw for an event at pixel x of the row.
handleMaskDrawAt(type, x) ==
    /\ StrokeEvent(type)
    /\ IF ~isMasking \/ TouchList(type) = 0
       THEN UNCHANGED paintVars
       ELSE CASE type \in {"mousedown", "touchstart"} ->
                   /\ lastPosition' = x
                   /\ alpha' = paint(alpha, Disc(x))
              [] type \in MoveEvents /\ isDrawing ->
                   /\ alpha' = paint(alpha, Segment(lastPosition, x))
                   /\ lastPosition' = x
              [] OTHER -> UNCHANGED paintVars

\* The step is a handleMaskDraw that draws on the canvas: the stamp of a
\* pointer-down, or the segment of a pointer-move made while isDrawingRef.
Paints ==
    /\ isMasking
    /\ \/ lastOp' \in {"mousedown", "touchstart"}
       \/ lastOp' \in MoveEvents /\ isDrawing

\* MagicPanel onClearMask; the button is rendered while isMasking.
ClearMask ==
    /\ EditorShown(history, historyIndex, activeTool)
    /\ activeTool = "magic"
    /\ isMasking
    /\ ~isLoading
    /\ maskDataUrl # "null"
    /\ raster' = IF CanvasShown THEN "blank" ELSE raster
    /\ maskDataUrl' = "null"
    /\ lastOp' = "clearMask"
    /\ toast' = "none"
    /\ UNCHANGED <<storeVars, dbVars, ops, isLoading, activeTool,
                   showLiveAssistant, assistant, editHotspot, displayHotspot,
                   completedCrop, isMasking, videoResult, analysisResult,
                   groundingChunks, isDrawing, touches>>
    /\ alpha' = [p \in Pixels |-> 0]
    /\ UNCHANGED <<lastPosition, batchVars>>

\* The instructions typed into a panel: none, or some text.
Prompts == {"", "text"}

\* handleRetouch, called with the instruction p of the retouch panel.
handleRetouch(p) ==
    /\ EditorShown(history, historyIndex, activeTool)
    /\ activeTool = "retouch"
    /\ Len(ops) < MaxOps
    /\ IF ~editHotspot \/ p = ""
       THEN /\ toast' = "error"
            /\ UNCHANGED <<ops, isLoading>>
       ELSE /\ toast' = "none"
            /\ handleGenAction("retouch", history, historyIndex)
    /\ lastOp' = "retouch"
    /\ UNCHANGED <<storeVars, dbVars, activeTool, showLiveAssistant, assistant,
                   toolVars, maskVars>>
    /\ UNCHANGED <<paintVars, batchVars>>

\* A fill on its way: the mask image that is loading, then the remote call,
\* with the instruction and the mask handleMagicFill was called with.
FillOp(k, p, mask, h, i) ==
    [kind |-> k, tool |-> "fill", history |-> h, historyIndex |-> i,
     prompt |-> p, mask |-> mask]

\* handleMagicFill(p) up to maskImg.src = maskDataUrl.
handleMagicFill(p) ==
    /\ EditorShown(history, historyIndex, activeTool)
    /\ activeTool = "magic"
    /\ Len(ops) < MaxOps
    /\ IF maskDataUrl = "null"
       THEN /\ toast' = "error"
            /\ UNCHANGED ops
       ELSE /\ toast' = "none"
            /\ ops' = Append(ops, FillOp("maskLoad", p, maskDataUrl, history,
                                         historyIndex))
    /\ lastOp' = "fill"
    /\ UNCHANGED <<storeVars, dbVars, isLoading, activeTool, showLiveAssistant,
                   assistant, toolVars, maskVars>>
    /\ UNCHANGED <<paintVars, batchVars>>

\* maskImg.onload: the mask is drawn over black and handleGenAction of the
\* render that ran handleMagicFill is called.
MaskLoaded(k) ==
    /\ ops[k].kind = "maskLoad"
    /\ IF currentImageOf(ops[k].history, ops[k].historyIndex) = 0
       THEN /\ ops' = Remove(ops, k)
            /\ UNCHANGED isLoading
       ELSE /\ isLoading' = TRUE
            /\ ops' = Append(Remove(ops, k),
                             FillOp("gen", ops[k].prompt, ops[k].mask,
                                    ops[k].history, ops[k].historyIndex))
    /\ lastOp' = "maskLoaded"
    /\ toast' = "none"
    /\ UNCHANGED <<storeVars, dbVars, activeTool, showLiveAssistant, assistant,
                   toolVars, maskVars>>
    /\ UNCHANGED <<paintVars, batchVars>>

\* The submit button of the fill form of MagicPanel.
MagicFillSubmit ==
    /\ ~isLoading
    /\ maskDataUrl # "null"
    /\ \E p \in Prompts \ {""} : handleMagicFill(p)

\* -------------------------------------------------------------------------
\* Batch mode (BatchProcessor).  The items of the list are numbered in the
\* order they were added; the list is only appended to or emptied, so the
\* number of an item is its place in the list and no two items share one.
\* -------------------------------------------------------------------------
BatchItem(id, st) == [id |-> id, status |-> st]

Operations == {"filter", "adjust", "removeBg"}

\* The startBatch call in progress: the items of the render it was called
\* in, and the index of the item whose processItem it awaits.
Run(its, i) == [active |-> TRUE, items |-> its, i |-> i]

\* prev.map(it => it.id === id ? { ...it, status: st } : it)
setStatus(its, id, st) ==
    [k \in 1..Len(its) |->
        IF its[k].id = id THEN [its[k] EXCEPT !.status = st] ELSE its[k]]

\* The index at which the loop of startBatch, continued at index from,
\* next processes an item: the first one there that is not 'done' in its
\* own list, or past the end.
nextToProcess(its, from) ==
    IF \E j \in from..Len(its) : its[j].status # "done"
    THEN CHOOSE j \in from..Len(its) :
             /\ its[j].status # "done"
             /\ \A m \in from..(j - 1) : its[m].status = "done"
    ELSE Len(its) + 1

\* The loop of startBatch continued at index from of its list snap, up to
\* its next await or to its end; cur is the item list with the updates
\* queued before.
loop(snap, from, cur) ==
    LET j == nextToProcess(snap, from)
    IN  IF j > Len(snap)
        THEN /\ items' = cur
             /\ isProcessing' = FALSE
             /\ run' = NoRun
        ELSE /\ items' = setStatus(cur, snap[j].id, "processing")
             /\ isProcessing' = TRUE
             /\ run' = Run(snap, j)

\* 'Add Images' with n files chosen; the input is never disabled.
handleFileUpload(n) ==
    /\ Len(items) + n <= MaxItems
    /\ items' = items \o [k \in 1..n |-> BatchItem(Len(items) + k, "pending")]
    /\ lastOp' = "addImages"
    /\ toast' = "none"
    /\ UNCHANGED <<editorVars, operation, prompt, isProcessing, run>>

\* The operation select.
setOperation(o) ==
    /\ ~isProcessing
    /\ o # operation
    /\ operation' = o
    /\ lastOp' = "setOperation"
    /\ toast' = "none"
    /\ UNCHANGED <<editorVars, items, prompt, isProcessing, run>>

\* The description input.
setPrompt(p) ==
    /\ ~isProcessing
    /\ operation # "removeBg"
    /\ p # prompt
    /\ prompt' = p
    /\ lastOp' = "setPrompt"
    /\ toast' = "none"
    /\ UNCHANGED <<editorVars, items, operation, isProcessing, run>>

clearAll ==
    /\ ~isProcessing
    /\ Len(items) > 0
    /\ items' = <<>>
    /\ lastOp' = "clearAll"
    /\ toast' = "none"
    /\ UNCHANGED <<editorVars, operation, prompt, isProcessing, run>>

\* The Run button: startBatch up to its first await, or to its end when
\* every item is 'done' already.
startBatch ==
    /\ ~isProcessing
    /\ operation = "removeBg" \/ prompt # ""
    /\ Len(items) > 0
    /\ loop(items, 1, items)
    /\ lastOp' = "startBatch"
    /\ toast' = "none"
    /\ UNCHANGED <<editorVars, operation, prompt>>

\* A startBatch that gives up at the first item that fails.
ItemReject_Stops ==
    /\ run.active
    /\ items' = setStatus(items, run.items[run.i].id, "error")
    /\ isProcessing' = FALSE
    /\ run' = NoRun
    /\ lastOp' = "itemFailed"
    /\ toast' = "none"
    /\ UNCHANGED <<editorVars, operation, prompt>>

\* processItem resolved: the item is 'done' and the loop goes on.
ItemResolve ==
    /\ run.active
    /\ loop(run.items, run.i + 1,
            setStatus(items, run.items[run.i].id, "done"))
    /\ lastOp' = "itemDone"
    /\ toast' = "none"
    /\ UNCHANGED <<editorVars, operation, prompt>>

\* processItem rejected: the item is 'error' and the loop goes on.
ItemReject ==
    /\ run.active
    /\ loop(run.items, run.i + 1,
            setStatus(items, run.items[run.i].id, "error"))
    /\ lastOp' = "itemFailed"
    /\ toast' = "none"
    /\ UNCHANGED <<editorVars, operation, prompt>>

\* -------------------------------------------------------------------------
\* Specifications
\* -------------------------------------------------------------------------
\* The history store, its persistence and the remote operations of the tool
\* panels; masks, hotspots and analysis results stay in their initial state.
Next ==
    \/ Upload
    \/ CropComplete
    \/ handleCropApply
    \/ Undo
    \/ Redo
    \/ handleClear
    \/ SaveDone
    \/ ClearDone
    \/ LoadDone
    \/ PersistFail
    \/ PanelAction
    \/ \E k \in 1..Len(ops) : GenResolve(k)
    \/ \E k \in 1..Len(ops) : GenReject(k)
    \/ \E t \in StoreTools : SetActiveTool(t)

Spec == Init /\ [][Next]_vars

\* The tool state (hotspot, crop selection, mask, analysis result) and the
\* operations that append to the history, started with an empty object store.
InitTools == Init /\ record = NoSession

NextTools ==
    \/ Upload
    \/ LoadDone
    \/ SaveDone
    \/ Undo
    \/ Redo
    \/ \E t \in PanelTools : SetActiveTool(t)
    \/ handleImageClick
    \/ CropComplete
    \/ handleCropApply
    \/ ToggleMasking
    \/ \E type \in MouseEvents : handleMaskDraw(type)
    \/ ClearMask
    \/ PanelAction
    \/ \E k \in 1..Len(ops) : GenResolve(k)
    \/ \E k \in 1..Len(ops) : GenReject(k)
    \/ handleAnalysis
    \/ \E k \in 1..Len(ops) : AnalysisResolve(k)
    \/ \E k \in 1..Len(ops) : AnalysisReject(k)

SpecTools == InitTools /\ [][NextTools]_vars

\* The handlers of the retouch and fill panels, called whether or not the
\* control that calls them is enabled: what each handler checks by itself.
NextHandlers ==
    \/ Upload
    \/ LoadDone
    \/ SaveDone
    \/ \E t \in {"retouch", "magic"} : SetActiveTool(t)
    \/ handleImageClick
    \/ ToggleMasking
    \/ \E type \in MouseEvents : handleMaskDraw(type)
    \/ ClearMask
    \/ \E p \in Prompts : handleRetouch(p)
    \/ \E p \in Prompts : handleMagicFill(p)
    \/ \E k \in 1..Len(ops) : MaskLoaded(k)
    \/ \E k \in 1..Len(ops) : GenResolve(k)
    \/ \E k \in 1..Len(ops) : GenReject(k)

SpecHandlers == InitTools /\ [][NextHandlers]_vars

\* The mask pipeline of the fill tool: mouse and touch events on the mask
\* canvas, the controls of MagicPanel and the fill they submit.
NextMask ==
    \/ Upload
    \/ LoadDone
    \/ SaveDone
    \/ \E t \in {"retouch", "magic"} : SetActiveTool(t)
    \/ ToggleMasking
    \/ \E type \in MouseEvents \cup TouchEvents : handleMaskDraw(type)
    \/ ClearMask
    \/ MagicFillSubmit
    \/ \E k \in 1..Len(ops) : MaskLoaded(k)
    \/ \E k \in 1..Len(ops) : GenResolve(k)
    \/ \E k \in 1..Len(ops) : GenReject(k)

SpecMask == InitTools /\ [][NextMask]_vars

\* The tools that call the remote collaborator without a selection made on
\* the image first.
RemoteTools == {"filters", "video", "generate", "analyze"}

\* Every entry point of a remote operation: the tool panels, the tool calls
\* of the voice assistant, image analysis and video analysis.
NextRemote ==
    \/ Upload
    \/ LoadDone
    \/ SaveDone
    \/ \E t \in RemoteTools : SetActiveTool(t)
    \/ OpenAssistant
    \/ CloseAssistant
    \/ ToolCall
    \/ PanelAction
    \/ \E k \in 1..Len(ops) : GenResolve(k)
    \/ \E k \in 1..Len(ops) : GenReject(k)
    \/ handleAnalysis
    \/ \E k \in 1..Len(ops) : AnalysisResolve(k)
    \/ \E k \in 1..Len(ops) : AnalysisReject(k)
    \/ AnalyzeVideo
    \/ \E k \in 1..Len(ops) : VideoAnalysisResolve(k)
    \/ \E k \in 1..Len(ops) : VideoAnalysisReject(k)
    \/ \E k \in 1..Len(ops) : VideoPoll(k)

SpecRemote == InitTools /\ [][NextRemote]_vars

\* The remote collaborator answers: every video operation is eventually
\* reported done, or one of its requests fails.
VideoAnswered(k) ==
    /\ k <= Len(ops)
    /\ VideoOp(k)
    /\ GenResolve(k) \/ GenReject(k)

SpecRemoteFair ==
    SpecRemote /\ \A k \in 1..MaxOps : WF_vars(VideoAnswered(k))

\* The Generate tool, on an image and on the empty history a reset leaves.
NextGenerate ==
    \/ Upload
    \/ LoadDone
    \/ SaveDone
    \/ handleClear
    \/ ClearDone
    \/ \E t \in {"filters", "generate"} : SetActiveTool(t)
    \/ PanelAction
    \/ \E k \in 1..Len(ops) : GenResolve(k)
    \/ \E k \in 1..Len(ops) : GenReject(k)

SpecGenerate == InitTools /\ [][NextGenerate]_vars

\* The batch screen; every remote call of a run returns or fails.
NextBatch ==
    \/ \E n \in 1..MaxItems : handleFileUpload(n)
    \/ \E o \in Operations : setOperation(o)
    \/ \E p \in Prompts : setPrompt(p)
    \/ clearAll
    \/ startBatch
    \/ ItemResolve
    \/ ItemReject

SpecBatch ==
    InitTools /\ [][NextBatch]_vars /\ WF_vars(ItemResolve \/ ItemReject)

\* Painting on the mask canvas, with the pixels of one row followed.
NextPaint ==
    \/ Upload
    \/ LoadDone
    \/ SaveDone
    \/ SetActiveTool("magic")
    \/ ToggleMasking
    \/ \E type \in MouseEvents, x \in Pixels : handleMaskDrawAt(type, x)
    \/ ClearMask

SpecPaint == InitTools /\ [][NextPaint]_vars

\* -------------------------------------------------------------------------
\* Properties of the history store (specification Spec)
\* -------------------------------------------------------------------------
AppendOps == {"upload", "crop", "genDone"}

\* Notifications of type 'error': the message of a failed remote call, and
\* the message dataURLtoFile throws.
ErrorToasts == {"error", "Invalid data URL"}

FailedOps == {"saveFailed", "loadFailed", "clearFailed"}

HasRequest(q, t) == \E k \in 1..Len(q) : q[k].type = t

Requests(q, t) ==
    LET OfType(r) == r.type = t
    IN  Len(SelectSeq(q, OfType))

\* C1: in every reachable state -1 <= cursor <= length-1, and the sequence
\* is empty exactly when the cursor is -1.
C1_CursorInRange ==
    /\ -1 <= historyIndex
    /\ historyIndex <= Len(history) - 1
    /\ (Len(history) = 0) <=> (historyIndex = -1)

\* A remote edit appended to a history on which undo had been used.
C1_Witness ==
    /\ lastOp = "genDone"
    /\ Len(history) = 2
    /\ historyIndex = 1
    /\ history[1] <= OldSnaps

\* C2: every append made when the store holds (history, cursor) gives
\* history[0..cursor] followed by the new snapshot, with the cursor on the
\* new last index (so redo is unavailable).
C2_AppendCutsBranch ==
    [][lastOp' \in AppendOps =>
          /\ history' = Append(SubSeq(history, 1, historyIndex + 1), nextFile)
          /\ historyIndex' = Len(history') - 1]_vars

\* C3: undo moves the cursor back by one when it is above 0 and otherwise
\* changes neither the cursor nor the sequence.
C3_Undo ==
    [][lastOp' = "undo" =>
          /\ history' = history
          /\ historyIndex' =
               IF historyIndex > 0 THEN historyIndex - 1 ELSE historyIndex]_vars

\* Undo has moved the cursor from 1 to 0.
C3_Witness ==
    /\ lastOp = "undo"
    /\ historyIndex = 0
    /\ Len(history) >= 2
    /\ pending # <<>>
    /\ pending[Len(pending)] = Request("save", history, 0)

\* C4: redo moves the cursor forward by one when it is below length-1 and
\* otherwise changes neither the cursor nor the sequence.
C4_Redo ==
    [][lastOp' = "redo" =>
          /\ history' = history
          /\ historyIndex' =
               IF historyIndex < Len(history) - 1
               THEN historyIndex + 1 ELSE historyIndex]_vars

\* Redo has moved the cursor from 0 to the tip.
C4_Witness ==
    /\ lastOp = "redo"
    /\ historyIndex = 1
    /\ Len(history) = 2
    /\ pending # <<>>
    /\ pending[Len(pending)] = Request("save", history, 1)

\* C5: a completed reset leaves the store empty with the record deleted, and
\* while the store stays empty the record does not come back.
C5_ResetDeletesRecord ==
    [][/\ lastOp' = "cleared" =>
            Len(history') = 0 /\ historyIndex' = -1 /\ ~record'.present
       /\ (~record.present /\ Len(history) = 0 /\ Len(history') = 0) =>
            ~record'.present]_vars

\* C6: load is issued once, at startup; when it yields a record with a
\* non-empty history the store becomes (record.history, record.currentIndex)
\* and 'Session restored' is shown, which happens at no other step; when it
\* yields no such record the store is left as it is and nothing is shown.
C6_Rehydrate ==
    /\ Requests(pending, "load") = 1
    /\ [][/\ Requests(pending', "load") <= Requests(pending, "load")
          /\ lastOp' = "loaded" =>
               IF record.present /\ Len(record.history) > 0
               THEN /\ history' = record.history
                    /\ historyIndex' = record.currentIndex
                    /\ toast' = "Session restored"
               ELSE /\ history' = history
                    /\ historyIndex' = historyIndex
                    /\ toast' = "none"
          /\ toast' = "Session restored" =>
               /\ lastOp' = "loaded"
               /\ Requests(pending', "load") < Requests(pending, "load")]_vars

\* The record ([1,2], 0) was restored: 1 is shown and redo is available.
C6_Witness ==
    /\ lastOp = "loaded"
    /\ toast = "Session restored"
    /\ history = <<1, 2>>
    /\ historyIndex = 0
    /\ record = SessionState(<<1, 2>>, 0)

\* The save effect: a step that changes history or cursor and leaves the
\* sequence non-empty issues, last in the queue, a save of exactly the new
\* (history, cursor); a step that leaves it empty issues nothing; no save of
\* an empty history is ever queued.
SaveIssued ==
    (<<history, historyIndex>>' # <<history, historyIndex>>) =>
        IF Len(history') > 0
        THEN /\ pending' # <<>>
             /\ pending'[Len(pending')] =
                  Request("save", history', historyIndex')
        ELSE Len(pending') <= Len(pending)

NoEmptySave ==
    \A k \in 1..Len(pending) :
        pending[k].type = "save" => Len(pending[k].history) > 0

C8_PersistenceNeverBlocks ==
    [][/\ lastOp' = "clearFailed" =>
            Len(history') = 0 /\ historyIndex' = -1
       /\ (HasRequest(pending, "clear") /\ lastOp' # "cleared") =>
            <<history, historyIndex>>' = <<history, historyIndex>>
       /\ lastOp' \in {"saveFailed", "loadFailed"} =>
            <<history, historyIndex>>' = <<history, historyIndex>>]_vars

\* -------------------------------------------------------------------------
\* Properties of the tool state (specification SpecTools)
\* -------------------------------------------------------------------------
\* C9: after every append the hotspot (edit and display), the crop
\* selection, masking mode, the exported mask, the video result and the
\* analysis result with its citations are all cleared.
C9_AppendClearsToolState ==
    lastOp \in AppendOps =>
        /\ ~editHotspot
        /\ ~displayHotspot
        /\ ~completedCrop
        /\ ~isMasking
        /\ maskDataUrl = "null"
        /\ ~videoResult
        /\ ~analysisResult
        /\ ~groundingChunks

\* C16: undo and redo leave the history sequence and all transient tool
\* state (hotspot, crop selection, masking mode, exported mask, video and
\* analysis results) unchanged, as well as the tool, the busy flag and the
\* outstanding operations.
C16_UndoRedoFrame ==
    [][lastOp' \in {"undo", "redo"} =>
          /\ history' = history
          /\ toolVars' = toolVars
          /\ <<activeTool, isLoading, ops, isDrawing>>' =
               <<activeTool, isLoading, ops, isDrawing>>]_vars

\* Undo has moved from the second snapshot, on which a mask was painted and
\* exported, to the first: the mask is still there.
C16_Witness ==
    /\ lastOp = "undo"
    /\ Len(history) = 2
    /\ historyIndex = 0
    /\ isMasking
    /\ maskDataUrl = "painted"

\* C10: the dispatch of a generation call and its failure change neither
\* the history, nor the cursor, nor the mask state, and the failure adds an
\* error notification.
C10_FailedEditLeavesState ==
    [][/\ lastOp' \in {"dispatch", "genFailed"} =>
            /\ <<history, historyIndex>>' = <<history, historyIndex>>
            /\ <<isMasking, maskDataUrl, raster, isDrawing>>' =
                 <<isMasking, maskDataUrl, raster, isDrawing>>
       /\ lastOp' = "genFailed" => toast' \in ErrorToasts]_vars

\* A generation call dispatched with a finished mask has failed.
C10_Witness ==
    /\ lastOp = "genFailed"
    /\ toast = "error"
    /\ isMasking
    /\ maskDataUrl = "painted"
    /\ raster = "painted"
    /\ Len(history) = 1
    /\ ~isLoading

\* -------------------------------------------------------------------------
\* Properties of the handlers (specification SpecHandlers)
\* -------------------------------------------------------------------------
\* A remote fill call made with instruction p is outstanding.
FillDispatched(p) ==
    \E k \in 1..Len(ops) :
        ops[k].kind = "gen" /\ ops[k].tool = "fill" /\ ops[k].prompt = p

C12_MaskHasPaint ==
    /\ maskDataUrl # "null" => maskDataUrl = "painted"
    /\ \A k \in 1..Len(ops) :
          ops[k].tool = "fill" => ops[k].mask = "painted"

\* -------------------------------------------------------------------------
\* Properties of the remote operations (specification SpecRemote)
\* -------------------------------------------------------------------------
RemoteKinds == {"gen", "analysis", "videoAnalysis"}

\* The number of remote calls outstanding in q.
Outstanding(q) == Cardinality({k \in 1..Len(q) : q[k].kind \in RemoteKinds})

\* C13: at most one remote operation is outstanding in every reachable
\* state, and no step taken while the busy flag is set dispatches another.
C13_OneOutstanding ==
    /\ [](Outstanding(ops) <= 1)
    /\ [][isLoading => Outstanding(ops') <= Outstanding(ops)]_vars

\* C17: when the remote call of a generation operation succeeds, its result
\* is appended and becomes the current snapshot; when it fails, an error
\* notification is added and history, cursor and tool state are unchanged.
C17_TwoOutcomes ==
    [][\A k \in 1..Len(ops) :
          /\ GenResolve(k) =>
                /\ lastOp' = "genDone"
                /\ Len(history') > 0
                /\ history'[Len(history')] = nextFile
                /\ historyIndex' = Len(history') - 1
          /\ GenReject(k) =>
                /\ toast' \in ErrorToasts
                /\ UNCHANGED <<history, historyIndex, toolVars>>]_vars

\* -------------------------------------------------------------------------
\* The history store while a remote operation runs (specification Spec)
\* -------------------------------------------------------------------------
\* C14: while a remote operation is outstanding, undo, redo, reset,
\* crop-apply and upload leave history and cursor as they are.
C14_BusyBlocksStore ==
    [][(Outstanding(ops) > 0 /\
        lastOp' \in {"undo", "redo", "reset", "cleared", "crop", "upload"})
          => <<history, historyIndex>>' = <<history, historyIndex>>]_vars

\* C15: undo, redo and every append, the one that completes a remote
\* operation included, leave index 0 of a non-empty sequence in place.
C15_OriginalKept ==
    [][(Len(history) > 0 /\ lastOp' \in {"undo", "redo"} \cup AppendOps)
          => Len(history') > 0 /\ history'[1] = history[1]]_vars

\* -------------------------------------------------------------------------
\* The stroke state machine (specification SpecMask)
\* -------------------------------------------------------------------------
\* C18: pixels appear on the raster only by a pointer-down or a
\* pointer-move of a stroke in progress, handled while masking is enabled;
\* and a pointer-move that directly follows a stroke-ending event, or the
\* re-enabling of masking, draws nothing.
C18_PaintOnlyInStroke ==
    [][/\ (raster = "blank" /\ raster' = "painted") => Paints
       /\ (lastOp \in EndEvents \cup {"toggleMasking"} /\ lastOp' \in MoveEvents)
            => ~Paints]_vars

\* C19: a stroke-ending event received while a stroke is in progress ends
\* it (isDrawing false) and exports the raster as the mask.
C19_StrokeFinalized ==
    [][(isDrawing /\ lastOp' \in EndEvents)
          => ~isDrawing' /\ maskDataUrl' = raster]_vars

\* C20: ClearMask leaves the raster blank, no exported mask and no stroke
\* in progress, and a pointer-move that directly follows it draws nothing.
C20_ClearMaskResets ==
    [][/\ lastOp' = "clearMask" =>
            raster' = "blank" /\ maskDataUrl' = "null" /\ ~isDrawing'
       /\ (lastOp = "clearMask" /\ lastOp' \in MoveEvents) => ~Paints]_vars

\* C21: after masking is toggled off, and after every change of the active
\* tool, the raster is blank, no exported mask remains and no stroke is in
\* progress.
C21_MaskDiscarded ==
    [][(lastOp' = "tool" \/ (lastOp' = "toggleMasking" /\ ~isMasking'))
          => /\ raster' = "blank"
             /\ maskDataUrl' = "null"
             /\ ~isDrawing']_vars

\* -------------------------------------------------------------------------
\* The pixels of the mask (specification SpecPaint)
\* -------------------------------------------------------------------------
\* C22: every painted pixel has the one fully opaque value, and painting
\* over a pixel that is already painted does not change its opacity.
C22_IdempotentUnion ==
    /\ [](\A p \in Pixels : alpha[p] \in {0, 255})
    /\ [][lastOp' \in MouseEvents =>
            \A p \in Pixels : alpha[p] > 0 => alpha'[p] = alpha[p]]_vars

\* -------------------------------------------------------------------------
\* Failures and the busy flag (specification SpecRemote)
\* -------------------------------------------------------------------------
\* C23: every failure of a remote call (a generation action, the image
\* analysis, the video analysis) is handled and adds an error notification.
C23_FailuresNotified ==
    [][lastOp' \in {"genFailed", "analysisFailed", "videoAnalysisFailed"}
          => toast' \in ErrorToasts]_vars

\* A generateVeoVideo call is in its poll loop.
VideoPolling == \E k \in 1..Len(ops) : VideoOp(k)

\* C24: a poll that is answered 'not done' leaves the operation outstanding
\* and the busy flag set, and the busy flag is set for as long as a video
\* operation is outstanding; the step that ends the operation clears the
\* busy flag; and once the remote reports done or a request fails, the
\* busy flag is eventually cleared.
C24_PollUntilDone ==
    /\ [][\A k \in 1..Len(ops) :
             /\ VideoPoll(k) => (ops' = ops /\ isLoading')
             /\ VideoAnswered(k) => ~isLoading']_vars
    /\ [](VideoPolling => isLoading)
    /\ (VideoPolling ~> ~isLoading)

\* C27: the busy flag is set in exactly the states in which a remote
\* operation (generation, image analysis, video analysis) is outstanding.
C27_BusyIffOutstanding == isLoading <=> Outstanding(ops) > 0

\* C28: a tool call of the voice assistant dispatches its operation on the
\* snapshot that is current when the call arrives, to be appended to the
\* history and cursor of that moment.
C28_ToolCallOnCurrent ==
    [][lastOp' = "toolCall" =>
          \E tool \in {"filters", "magic"} :
              ops' = Append(ops, RemoteOp("gen", tool, history,
                                          historyIndex))]_vars

\* -------------------------------------------------------------------------
\* Asynchronous completions and the history store (specification Spec)
\* -------------------------------------------------------------------------
\* C25: the append that completes a remote operation is applied to the
\* history and cursor of the moment of completion: the new sequence is
\* history[0..cursor] of that moment followed by the result.
C25_AppendAtCompletion ==
    [][\A k \in 1..Len(ops) :
          (GenResolve(k) /\ lastOp' = "genDone") =>
              /\ history' =
                   Append(SubSeq(history, 1, historyIndex + 1), nextFile)
              /\ historyIndex' = Len(history') - 1]_vars

\* C26: when the load of startup completes after a snapshot was appended,
\* history and cursor stay as they are.
C26_LoadKeepsUpload ==
    [][(lastOp' = "loaded" /\ Len(history) > 0)
          => <<history, historyIndex>>' = <<history, historyIndex>>]_vars

\* -------------------------------------------------------------------------
\* Generation from nothing (specification SpecGenerate)
\* -------------------------------------------------------------------------
\* C30: with the Generate tool active and an empty history, the Generate
\* button dispatches a remote call, and the success of a call dispatched
\* from the empty history leaves the result as the only snapshot, with the
\* cursor on it.
C30_GenerateFromEmpty ==
    [][/\ (activeTool = "generate" /\ Len(history) = 0 /\ PanelAction) =>
            /\ Outstanding(ops') = Outstanding(ops) + 1
            /\ isLoading'
       /\ \A k \in 1..Len(ops) :
            (GenResolve(k) /\ ops[k].tool = "generate" /\ ops[k].history = <<>>)
               => history' = <<nextFile>> /\ historyIndex' = 0]_vars

\* -------------------------------------------------------------------------
\* The batch run (specification SpecBatch)
\* -------------------------------------------------------------------------
Finished == {"done", "error"}

\* C29: at most one item is being processed; during a run the items of the
\* list it started with are in place, those before the one being processed
\* are 'done' or 'error' and those after it are as they were when the run
\* started; an item that is 'done' stays 'done'; the step that ends a run
\* leaves isProcessing false and every item the run started with 'done' or
\* 'error'; and every run ends.
C29_BatchRun ==
    /\ [](Cardinality({k \in 1..Len(items) :
                          items[k].status = "processing"}) <= 1)
    /\ [](isProcessing <=> run.active)
    /\ [](run.active =>
            \A k \in 1..Len(run.items) :
                /\ k <= Len(items)
                /\ items[k].id = run.items[k].id
                /\ k < run.i => items[k].status \in Finished
                /\ k = run.i => items[k].status = "processing"
                /\ k > run.i => items[k].status = run.items[k].status)
    /\ [][/\ \A k \in 1..Len(items) :
               (items[k].status = "done" /\ k <= Len(items'))
                  => items'[k].status = "done"
          /\ (run.active /\ ~run'.active) =>
               /\ ~isProcessing'
               /\ \A k \in 1..Len(run.items) :
                     items'[k].status \in Finished]_vars
    /\ (isProcessing ~> ~isProcessing)

\* A run has ended in which the first item failed and the second succeeded,
\* while a third item, added during the run, is still in the queue.
C29_Witness ==
    /\ lastOp = "itemDone"
    /\ ~isProcessing
    /\ Len(items) = 3
    /\ items[1].status = "error"
    /\ items[2].status = "done"
    /\ items[3].status = "pending"

====
